---- MODULE Spec2Model ----
(***************************************************************************)
(* A model of the three engines of the Dream11 team predictor:             *)
(*   - FantasyPointsCalculator (backend/src/fantasy_calculator.py)         *)
(*   - CreditsCalculator       (backend/src/credits_calculator.py)         *)
(*   - TeamSelector            (backend/src/solver.py)                     *)
(* Each engine has its own specification over the shared variables; the   *)
(* variables of the engines a specification does not run stay idle.        *)
(***************************************************************************)
EXTENDS Integers, Sequences, FiniteSets, TLC

VARIABLES
    pc,             \* position of the running call
    player_points,  \* FantasyPointsCalculator.player_points: id -> (category -> points)
    player_stats,   \* FantasyPointsCalculator.player_stats: id -> counters
    runs_in_over,   \* calculate_points: local runs_in_over
    over_len,       \* calculate_points: deliveries of the current over processed so far
    delivery,       \* calculate_points: the loop variable `delivery`: <<d>>, or <<>> while unassigned
    n_deliveries,   \* deliveries processed in this pass
    n_overs,        \* overs started in this pass
    final_scores,   \* the value calculate_points returned
    squad,          \* TeamSelector.players_df: the rows of the squad, player_ids = 1..Len
    selected_ids,   \* select_team: the ids whose varValue == 1 after prob.solve()
    response,       \* create_prediction: the HTTP status it ends with (None before)
    historical_df,  \* CreditsCalculator.historical_df: the rows of the record store
    role_tables,    \* PlayerDataProcessor: seasonal_roles_df and global_roles_df
    match_date,     \* get_credits_for_match: the target date
    credits,        \* the value get_credits_for_match returned (EmptyFn before)
    role_lookup,    \* get_player_role: <<the call and its outcome>>, <<>> before a call
    match_data      \* FantasyPointsCalculator.match_data: the overs of the match an engine
                    \* was built over (<<>> where the stream is drawn as the pass goes)

scoringVars == <<player_points, player_stats, runs_in_over, over_len, delivery,
                 n_deliveries, n_overs, final_scores>>
solverVars == <<squad, selected_ids, response>>
creditVars == <<historical_df, role_tables, match_date, credits, role_lookup>>
idleOfScoring == <<solverVars, creditVars, match_data>>
idleOfSolver == <<scoringVars, creditVars, match_data>>
idleOfCredits == <<scoringVars, solverVars, match_data>>
vars == <<pc, scoringVars, solverVars, creditVars, match_data>>

None == "none"
EmptyFn == [x \in {} |-> 0]

(***************************************************************************)
(* FantasyPointsCalculator                                                 *)
(***************************************************************************)

\* SCORING_RULES
RunPoints == 1
BoundaryBonus == 1
SixBonus == 2
DuckPoints == -2
WicketPoints == 25
LbwBowledBonus == 8
ThreeWickets == 6
FourWickets == 10
FiveWickets == 16
MaidenOver == 12
CatchPoints == 8
ThreeCatchesBonus == 4
StumpingPoints == 12
RunOutDirect == 12
RunOutShared == 6
MinBallsFaced == 10
MinLegalBalls == 12

\* bounds of the match streams
MaxDeliveries == 3
MaxOvers == 2
\* bounds of the end-of-match counters drawn by SpecBonus
MaxBallsFaced == 12
LongInningsBalls == 1003
MaxCatches == 3
MaxLegalBalls == 13
MaxRunsConceded == 26
MaxWickets == 6

Categories == {"batting", "bowling", "fielding"}

\* _get_player_registry: the names of info.players that info.registry.people maps to an id
player_registry == [n \in {"A", "B", "C"} |-> "p" \o n]
Names == {"A", "B", "C", "U"}

RegistryGet(name) ==
    IF name \in DOMAIN player_registry THEN player_registry[name] ELSE None

ZeroStats == [runs_scored |-> 0, balls_faced |-> 0, wickets |-> 0,
              runs_conceded |-> 0, legal_balls_bowled |-> 0, catches |-> 0]

\* defaultdict(lambda: defaultdict(int)): a read of a missing key yields 0
StatsOf(ps, pid) == IF pid \in DOMAIN ps THEN ps[pid] ELSE ZeroStats

\* self.player_points[pid][cat] += n  (creates the player and the category on first touch)
AddPoints(pp, pid, cat, n) ==
    LET cur == IF pid \in DOMAIN pp THEN pp[pid] ELSE EmptyFn
        old == IF cat \in DOMAIN cur THEN cur[cat] ELSE 0
        new == [c \in DOMAIN cur \cup {cat} |-> IF c = cat THEN old + n ELSE cur[c]]
    IN  [q \in DOMAIN pp \cup {pid} |-> IF q = pid THEN new ELSE pp[q]]

\* points[cat] of one player's accumulators (0 when never touched)
PointsInCategory(points, cat) == IF cat \in DOMAIN points THEN points[cat] ELSE 0

\* self.player_stats[pid][key] += n
AddStat(ps, pid, key, n) ==
    LET cur == StatsOf(ps, pid)
    IN  [q \in DOMAIN ps \cup {pid} |->
            IF q = pid THEN [cur EXCEPT ![key] = @ + n] ELSE ps[q]]

Engine(pp, ps) == [points |-> pp, stats |-> ps]

\* the deliveries of the bounded match streams: plain balls, balls with extras, wickets
NoExtras == [kind |-> "none", runs |-> 0]
Extras == {[kind |-> "wides", runs |-> 1], [kind |-> "noballs", runs |-> 1],
           [kind |-> "byes", runs |-> 1]}
Wickets == {[kind |-> "bowled", fielders |-> <<>>], [kind |-> "lbw", fielders |-> <<>>],
            [kind |-> "caught", fielders |-> <<"C">>], [kind |-> "caught", fielders |-> <<"U">>],
            [kind |-> "stumped", fielders |-> <<"C">>],
            [kind |-> "run out", fielders |-> <<"C">>],
            [kind |-> "run out", fielders |-> <<"C", "A">>],
            [kind |-> "run out", fielders |-> <<"C", "U">>],
            [kind |-> "run out", fielders |-> <<>>]}
BatterRuns == {0, 1, 4, 6}
BowlerNames == {"B", "U"}
Deliveries ==
    [batter : {"A", "U"}, bowler : BowlerNames, runs_batter : BatterRuns,
     extras : {NoExtras}, wickets : {<<>>}]
    \cup [batter : {"A"}, bowler : BowlerNames, runs_batter : {0},
          extras : Extras, wickets : {<<>>}]
    \cup [batter : {"A"}, bowler : BowlerNames, runs_batter : {0},
          extras : {NoExtras}, wickets : {<<w>> : w \in Wickets}]

\* a changed TotalRuns: the over's sum leaves the extras out
TotalRuns_BatterOnly(d) == d.runs_batter

\* delivery['runs']['total']: batter runs plus all extras
TotalRuns(d) == d.runs_batter + d.extras.runs

\* _process_delivery, batting part (lines 90-101)
ProcessBatting(e, d) ==
    LET batter_id == RegistryGet(d.batter)
        runs == d.runs_batter
        p1 == AddPoints(e.points, batter_id, "batting", runs * RunPoints)
        p2 == IF runs = 4 THEN AddPoints(p1, batter_id, "batting", BoundaryBonus) ELSE p1
        p3 == IF runs = 6 THEN AddPoints(p2, batter_id, "batting", SixBonus) ELSE p2
        s1 == AddStat(e.stats, batter_id, "runs_scored", runs)
        s2 == IF d.extras.kind # "wides" THEN AddStat(s1, batter_id, "balls_faced", 1) ELSE s1
    IN  IF batter_id # None THEN Engine(p3, s2) ELSE e

\* _process_delivery, one fielder of one wicket (lines 116-128)
ProcessFielder(e, w, name) ==
    LET fielder_id == RegistryGet(name)
    IN  IF fielder_id = None THEN e
        ELSE IF w.kind = "run out"
             THEN IF Len(w.fielders) = 1
                  THEN Engine(AddPoints(e.points, fielder_id, "fielding", RunOutDirect), e.stats)
                  ELSE Engine(AddPoints(e.points, fielder_id, "fielding", RunOutShared), e.stats)
        ELSE IF w.kind = "stumped"
             THEN Engine(AddPoints(e.points, fielder_id, "fielding", StumpingPoints), e.stats)
        ELSE Engine(AddPoints(e.points, fielder_id, "fielding", CatchPoints),
                    AddStat(e.stats, fielder_id, "catches", 1))

RECURSIVE ProcessFielders(_, _, _)
ProcessFielders(e, w, i) ==
    IF i > Len(w.fielders) THEN e
    ELSE ProcessFielders(ProcessFielder(e, w, w.fielders[i]), w, i + 1)

\* a changed ProcessWicket: a run out is credited to the bowler like any other dismissal
ProcessWicket_RunOutCredited(e, d, w) ==
    LET bowler_id == RegistryGet(d.bowler)
        p1 == AddPoints(e.points, bowler_id, "bowling", WicketPoints)
        s1 == AddStat(e.stats, bowler_id, "wickets", 1)
        p2 == IF w.kind \in {"bowled", "lbw"}
              THEN AddPoints(p1, bowler_id, "bowling", LbwBowledBonus) ELSE p1
        e1 == IF bowler_id # None THEN Engine(p2, s1) ELSE e
    IN  ProcessFielders(e1, w, 1)

\* _process_delivery, one wicket record (lines 105-128)
ProcessWicket(e, d, w) ==
    LET bowler_id == RegistryGet(d.bowler)
        p1 == AddPoints(e.points, bowler_id, "bowling", WicketPoints)
        s1 == AddStat(e.stats, bowler_id, "wickets", 1)
        p2 == IF w.kind \in {"bowled", "lbw"}
              THEN AddPoints(p1, bowler_id, "bowling", LbwBowledBonus) ELSE p1
        e1 == IF bowler_id # None /\ w.kind # "run out" THEN Engine(p2, s1) ELSE e
    IN  ProcessFielders(e1, w, 1)

RECURSIVE ProcessWickets(_, _, _)
ProcessWickets(e, d, i) ==
    IF i > Len(d.wickets) THEN e
    ELSE ProcessWickets(ProcessWicket(e, d, d.wickets[i]), d, i + 1)

\* _process_delivery, bowling stats (lines 131-137)
ProcessBowlingStats(e, d) ==
    LET bowler_id == RegistryGet(d.bowler)
        conceded == d.runs_batter
                    + (IF d.extras.kind = "wides" THEN d.extras.runs ELSE 0)
                    + (IF d.extras.kind = "noballs" THEN d.extras.runs ELSE 0)
        s1 == AddStat(e.stats, bowler_id, "runs_conceded", conceded)
        s2 == IF d.extras.kind \notin {"wides", "noballs"}
              THEN AddStat(s1, bowler_id, "legal_balls_bowled", 1) ELSE s1
    IN  IF bowler_id # None THEN Engine(e.points, s2) ELSE e

\* a changed ProcessDeliveryOp: a delivery whose batter is not registered is dropped whole
ProcessDeliveryOp_DropDelivery(e, d) ==
    IF RegistryGet(d.batter) = None THEN e
    ELSE ProcessBowlingStats(ProcessWickets(ProcessBatting(e, d), d, 1), d)

\* _process_delivery
ProcessDeliveryOp(e, d) ==
    ProcessBowlingStats(ProcessWickets(ProcessBatting(e, d), d, 1), d)

\* one band table lookup: the first band, in table order, with lo <= num/den <= hi
\* (values and band limits in hundredths; hi = Inf is float('inf'))
Inf == -1
InBand(band, num, den) ==
    /\ band.lo * den <= num
    /\ (band.hi = Inf \/ num <= band.hi * den)

RECURSIVE BandPoints(_, _, _, _)
BandPoints(bands, num, den, i) ==
    IF i > Len(bands) THEN 0
    ELSE IF InBand(bands[i], num, den) THEN bands[i].pts
    ELSE BandPoints(bands, num, den, i + 1)

\* SCORING_RULES['batting']['strike_rate'] (hundredths)
StrikeRateBands ==
    << [lo |-> 17000, hi |-> Inf, pts |-> 6],
       [lo |-> 15000, hi |-> 16999, pts |-> 4],
       [lo |-> 13000, hi |-> 14999, pts |-> 2],
       [lo |-> 5000, hi |-> 6999, pts |-> -2],
       [lo |-> 0, hi |-> 4999, pts |-> -4] >>

\* a changed economy table: the third band runs up to 10.0
EconomyRateBands_NoGap ==
    << [lo |-> 0, hi |-> 500, pts |-> 6],
       [lo |-> 501, hi |-> 650, pts |-> 4],
       [lo |-> 651, hi |-> 999, pts |-> 2],
       [lo |-> 1000, hi |-> 1100, pts |-> -2],
       [lo |-> 1101, hi |-> Inf, pts |-> -4] >>

\* SCORING_RULES['bowling']['economy_rate'] (hundredths)
EconomyRateBands ==
    << [lo |-> 0, hi |-> 500, pts |-> 6],
       [lo |-> 501, hi |-> 650, pts |-> 4],
       [lo |-> 651, hi |-> 800, pts |-> 2],
       [lo |-> 1000, hi |-> 1100, pts |-> -2],
       [lo |-> 1101, hi |-> Inf, pts |-> -4] >>

\* does some band of the table hold num/den
SomeBand(bands, num, den) == \E i \in 1..Len(bands) : InBand(bands[i], num, den)

\* lines 143-148: sr = runs_scored / balls_faced * 100, in hundredths 10000*runs/balls
ApplyStrikeRate(pp, stats, pid) ==
    IF stats.balls_faced >= MinBallsFaced
       /\ SomeBand(StrikeRateBands, 10000 * stats.runs_scored, stats.balls_faced)
    THEN AddPoints(pp, pid, "batting",
                   BandPoints(StrikeRateBands, 10000 * stats.runs_scored, stats.balls_faced, 1))
    ELSE pp

\* a changed ApplyDuck: the penalty no longer asks for a ball faced
ApplyDuck_AnyScoreless(pp, stats, pid) ==
    IF stats.runs_scored = 0 THEN AddPoints(pp, pid, "batting", DuckPoints) ELSE pp

\* lines 151-152
ApplyDuck(pp, stats, pid) ==
    IF stats.runs_scored = 0 /\ stats.balls_faced > 0
    THEN AddPoints(pp, pid, "batting", DuckPoints)
    ELSE pp

\* changed milestones: every threshold reached adds its bonus
ApplyWicketMilestones_Stacking(pp, stats, pid) ==
    LET p3 == IF stats.wickets >= 3 THEN AddPoints(pp, pid, "bowling", ThreeWickets) ELSE pp
        p4 == IF stats.wickets >= 4 THEN AddPoints(p3, pid, "bowling", FourWickets) ELSE p3
    IN  IF stats.wickets >= 5 THEN AddPoints(p4, pid, "bowling", FiveWickets) ELSE p4

\* lines 155-157
ApplyWicketMilestones(pp, stats, pid) ==
    LET p3 == IF stats.wickets = 3 THEN AddPoints(pp, pid, "bowling", ThreeWickets) ELSE pp
        p4 == IF stats.wickets = 4 THEN AddPoints(p3, pid, "bowling", FourWickets) ELSE p3
    IN  IF stats.wickets = 5 THEN AddPoints(p4, pid, "bowling", FiveWickets) ELSE p4

\* lines 159-165: er = runs_conceded / (legal_balls_bowled / 6), in hundredths 600*runs/balls
ApplyEconomyRate(pp, stats, pid) ==
    IF stats.legal_balls_bowled >= MinLegalBalls
       /\ SomeBand(EconomyRateBands, 600 * stats.runs_conceded, stats.legal_balls_bowled)
    THEN AddPoints(pp, pid, "bowling",
                   BandPoints(EconomyRateBands, 600 * stats.runs_conceded,
                              stats.legal_balls_bowled, 1))
    ELSE pp

\* lines 168-169
ApplyCatches(pp, stats, pid) ==
    IF stats.catches >= 3 THEN AddPoints(pp, pid, "fielding", ThreeCatchesBonus) ELSE pp

\* the body of the loop of _apply_end_of_match_bonuses for one player
ApplyPlayerBonuses(pp, stats, pid) ==
    ApplyCatches(
        ApplyEconomyRate(
            ApplyWicketMilestones(
                ApplyDuck(ApplyStrikeRate(pp, stats, pid), stats, pid),
                stats, pid),
            stats, pid),
        stats, pid)

\* _apply_end_of_match_bonuses: for player_id, stats in self.player_stats.items()
RECURSIVE ApplyBonusesTo(_, _, _)
ApplyBonusesTo(pp, ps, todo) ==
    IF todo = {} THEN pp
    ELSE LET pid == CHOOSE x \in todo : TRUE
         IN  ApplyBonusesTo(ApplyPlayerBonuses(pp, ps[pid], pid), ps, todo \ {pid})

ApplyEndOfMatchBonuses(pp, ps) == ApplyBonusesTo(pp, ps, DOMAIN ps)

\* sum(points.values())
RECURSIVE SumOver(_, _)
SumOver(f, keys) ==
    IF keys = {} THEN 0
    ELSE LET k == CHOOSE x \in keys : TRUE IN f[k] + SumOver(f, keys \ {k})

SumValues(f) == SumOver(f, DOMAIN f)

\* a changed FormatFinalPoints: the total leaves the fielding points out
FormatFinalPoints_NoFielding(pp) ==
    [pid \in DOMAIN pp |->
        [total_points |-> PointsInCategory(pp[pid], "batting")
                          + PointsInCategory(pp[pid], "bowling"),
         breakdown |-> pp[pid]]]

\* _format_final_points
FormatFinalPoints(pp) ==
    [pid \in DOMAIN pp |-> [total_points |-> SumValues(pp[pid]), breakdown |-> pp[pid]]]

\* calculate_points, lines 66-67: the next over begins
StartOver ==
    /\ pc = "overs"
    /\ n_overs < MaxOvers
    /\ runs_in_over' = 0
    /\ over_len' = 0
    /\ n_overs' = n_overs + 1
    /\ pc' = "deliveries"
    /\ UNCHANGED <<player_points, player_stats, delivery, n_deliveries, final_scores>>
    /\ UNCHANGED idleOfScoring

\* calculate_points, lines 68-70: one delivery of the current over (an over has one bowler)
ProcessDelivery ==
    /\ pc = "deliveries"
    /\ n_deliveries < MaxDeliveries
    /\ \E d \in Deliveries :
          /\ IF over_len = 0 THEN TRUE ELSE d.bowler = delivery[1].bowler
          /\ LET e == ProcessDeliveryOp(Engine(player_points, player_stats), d)
             IN  /\ player_points' = e.points
                 /\ player_stats' = e.stats
          /\ runs_in_over' = runs_in_over + TotalRuns(d)
          /\ delivery' = <<d>>
    /\ over_len' = over_len + 1
    /\ n_deliveries' = n_deliveries + 1
    /\ UNCHANGED <<pc, n_overs, final_scores>>
    /\ UNCHANGED idleOfScoring

\* calculate_points, lines 72-77: the over's deliveries are exhausted
EndOver ==
    /\ pc = "deliveries"
    /\ IF runs_in_over = 0
       THEN IF delivery = <<>>
            THEN \* `delivery` was never assigned: UnboundLocalError leaves calculate_points
                 /\ pc' = "raised"
                 /\ UNCHANGED player_points
            ELSE /\ pc' = "overs"
                 /\ player_points' =
                      IF RegistryGet(delivery[1].bowler) # None
                      THEN AddPoints(player_points, RegistryGet(delivery[1].bowler),
                                     "bowling", MaidenOver)
                      ELSE player_points
       ELSE /\ pc' = "overs"
            /\ UNCHANGED player_points
    /\ UNCHANGED <<player_stats, runs_in_over, over_len, delivery, n_deliveries,
                   n_overs, final_scores>>
    /\ UNCHANGED idleOfScoring

\* calculate_points, lines 79-80: the innings are exhausted
FinishMatch ==
    /\ pc = "overs"
    /\ player_points' = ApplyEndOfMatchBonuses(player_points, player_stats)
    /\ final_scores' = FormatFinalPoints(player_points')
    /\ pc' = "done"
    /\ UNCHANGED <<player_stats, runs_in_over, over_len, delivery, n_deliveries, n_overs>>
    /\ UNCHANGED idleOfScoring


\* the engines a scoring specification does not run
IdleSolver ==
    /\ squad = <<>>
    /\ selected_ids = {}
    /\ response = None

IdleCredits ==
    /\ historical_df = <<>>
    /\ role_tables = EmptyFn
    /\ match_date = 0
    /\ credits = EmptyFn
    /\ role_lookup = <<>>

\* FantasyPointsCalculator.__init__ followed by the call of calculate_points
InitMatch ==
    /\ IdleSolver
    /\ IdleCredits
    /\ match_data = <<>>
    /\ pc = "overs"
    /\ player_points = EmptyFn
    /\ player_stats = EmptyFn
    /\ runs_in_over = 0
    /\ over_len = 0
    /\ delivery = <<>>
    /\ n_deliveries = 0
    /\ n_overs = 0
    /\ final_scores = EmptyFn

NextMatch == StartOver \/ ProcessDelivery \/ EndOver \/ FinishMatch

SpecMatch == InitMatch /\ [][NextMatch]_vars

(***************************************************************************)
(* SpecBonus: _apply_end_of_match_bonuses and _format_final_points applied *)
(* to the counters of one player at the end of the stream.  A batting card *)
(* is a batter who ran all the runs (no boundary) and held catches off an  *)
(* unregistered bowler; a bowling card is a bowler whose wickets were      *)
(* neither bowled nor lbw.                                                 *)
(***************************************************************************)
BattingCards ==
    {[ZeroStats EXCEPT !.balls_faced = b, !.runs_scored = r, !.catches = c] :
        b \in 0..MaxBallsFaced, r \in 0..(2 * MaxBallsFaced), c \in 0..MaxCatches}
    \cup {[ZeroStats EXCEPT !.balls_faced = LongInningsBalls, !.runs_scored = r] :
             r \in 0..(2 * LongInningsBalls)}

BowlingCards ==
    {[ZeroStats EXCEPT !.legal_balls_bowled = l, !.runs_conceded = r, !.wickets = w] :
        l \in 0..MaxLegalBalls, r \in 0..MaxRunsConceded, w \in 0..MaxWickets}

InitBonus ==
    /\ pc = "overs"
    /\ IdleSolver
    /\ IdleCredits
    /\ match_data = <<>>
    /\ \/ \E card \in BattingCards :
             /\ card.runs_scored <= 2 * card.balls_faced
             /\ player_stats = [pid \in {"pA"} |-> card]
             /\ player_points =
                  LET batted == AddPoints(EmptyFn, "pA", "batting",
                                          card.runs_scored * RunPoints)
                  IN  IF card.catches > 0
                      THEN AddPoints(batted, "pA", "fielding", card.catches * CatchPoints)
                      ELSE batted
       \/ \E card \in BowlingCards :
             /\ card.wickets <= card.legal_balls_bowled
             /\ player_stats = [pid \in {"pB"} |-> card]
             /\ player_points =
                  IF card.wickets > 0
                  THEN AddPoints(EmptyFn, "pB", "bowling", card.wickets * WicketPoints)
                  ELSE EmptyFn
    /\ runs_in_over = 0
    /\ over_len = 0
    /\ delivery = <<>>
    /\ n_deliveries = 0
    /\ n_overs = 0
    /\ final_scores = EmptyFn

SpecBonus == InitBonus /\ [][FinishMatch]_vars

(***************************************************************************)
(* SpecEngine: one FantasyPointsCalculator built over a match, whose       *)
(* calculate_points is called and called again.  The accumulators are      *)
(* attributes of the engine, created by __init__ (lines 49-50) and never   *)
(* reset by calculate_points.  The overs of these matches hold one         *)
(* delivery each.                                                          *)
(***************************************************************************)
MaxMatchOvers == 2

Overs == {<<d>> : d \in Deliveries}
Matches == UNION {[1..n -> Overs] : n \in 1..MaxMatchOvers}

RECURSIVE ProcessOver(_, _, _)
\* lines 68-70: the deliveries of one over, from the i-th on
ProcessOver(e, over, i) ==
    IF i > Len(over) THEN e
    ELSE ProcessOver(ProcessDeliveryOp(e, over[i]), over, i + 1)

RECURSIVE RunsInOver(_, _)
RunsInOver(over, i) ==
    IF i > Len(over) THEN 0 ELSE TotalRuns(over[i]) + RunsInOver(over, i + 1)

\* lines 72-77: the maiden bonus of a (non-empty) over, to the bowler of its last delivery
MaidenBonus(e, over) ==
    LET bowler_id == RegistryGet(over[Len(over)].bowler)
    IN  IF RunsInOver(over, 1) = 0 /\ bowler_id # None
        THEN Engine(AddPoints(e.points, bowler_id, "bowling", MaidenOver), e.stats)
        ELSE e

RECURSIVE ProcessOvers(_, _, _)
\* lines 65-77: the overs of the match, from the i-th on
ProcessOvers(e, overs, i) ==
    IF i > Len(overs) THEN e
    ELSE ProcessOvers(MaidenBonus(ProcessOver(e, overs[i], 1), overs[i]), overs, i + 1)

\* FantasyPointsCalculator.__init__
InitEngine ==
    /\ pc = "built"
    /\ IdleSolver
    /\ IdleCredits
    /\ match_data \in Matches
    /\ player_points = EmptyFn
    /\ player_stats = EmptyFn
    /\ runs_in_over = 0
    /\ over_len = 0
    /\ delivery = <<>>
    /\ n_deliveries = 0
    /\ n_overs = 0
    /\ final_scores = EmptyFn

\* calculate_points, a whole call, on the accumulators the engine holds
CalculatePoints ==
    /\ pc \in {"built", "returned"}
    /\ LET e == ProcessOvers(Engine(player_points, player_stats), match_data, 1)
       IN  /\ player_points' = ApplyEndOfMatchBonuses(e.points, e.stats)
           /\ player_stats' = e.stats
    /\ final_scores' = FormatFinalPoints(player_points')
    /\ pc' = IF pc = "built" THEN "returned" ELSE "returned again"
    /\ UNCHANGED <<runs_in_over, over_len, delivery, n_deliveries, n_overs>>
    /\ UNCHANGED idleOfScoring

SpecEngine == InitEngine /\ [][CalculatePoints]_vars

(***************************************************************************)
(* Properties of the scoring engine                                        *)
(***************************************************************************)
PlayerIds == {player_registry[n] : n \in DOMAIN player_registry}

\* the points a player holds in a category (0 when never touched)
PointsIn(pp, pid, cat) ==
    IF pid \in DOMAIN pp /\ cat \in DOMAIN pp[pid] THEN pp[pid][cat] ELSE 0

BreakdownValue(b, cat) == IF cat \in DOMAIN b THEN b[cat] ELSE 0

\* the steps of calculate_points
IsStartOverStep == pc = "overs" /\ pc' = "deliveries"
IsDeliveryStep == pc = "deliveries" /\ n_deliveries' = n_deliveries + 1
IsEndOverStep == pc = "deliveries" /\ pc' \in {"overs", "raised"}
IsFinishStep == pc = "overs" /\ pc' = "done"

\* C6: every emitted player's total_points is the sum of the values of its breakdown.
C6_TotalIsSumOfBreakdown ==
    pc = "done" =>
        \A pid \in DOMAIN final_scores :
            /\ DOMAIN final_scores[pid].breakdown \subseteq Categories
            /\ final_scores[pid].total_points =
                 BreakdownValue(final_scores[pid].breakdown, "batting")
                 + BreakdownValue(final_scores[pid].breakdown, "bowling")
                 + BreakdownValue(final_scores[pid].breakdown, "fielding")

\* a finished match where a player scored in two categories and took an end-of-match penalty
C6_Witness ==
    /\ pc = "done"
    /\ "pA" \in DOMAIN final_scores
    /\ DOMAIN final_scores["pA"].breakdown = {"batting", "fielding"}
    /\ final_scores["pA"].breakdown["batting"] = DuckPoints
    /\ final_scores["pA"].breakdown["fielding"] = RunOutShared
    /\ final_scores["pA"].total_points = DuckPoints + RunOutShared

StrikeRatePart(stats) ==
    IF stats.balls_faced >= MinBallsFaced
    THEN BandPoints(StrikeRateBands, 10000 * stats.runs_scored, stats.balls_faced, 1)
    ELSE 0

\* C8: at the end of the match -2 batting points are applied iff runs_scored = 0 and
\* balls_faced > 0; a delivery counts as a ball faced iff it is not a wide.
C8_DuckPenalty ==
    [][ /\ IsDeliveryStep =>
             LET d == delivery'[1]
                 batter_id == RegistryGet(d.batter)
             IN  batter_id # None =>
                    StatsOf(player_stats', batter_id).balls_faced
                      = StatsOf(player_stats, batter_id).balls_faced
                        + (IF d.extras.kind = "wides" THEN 0 ELSE 1)
        /\ IsFinishStep =>
             \A pid \in PlayerIds :
                LET stats == StatsOf(player_stats, pid)
                IN  PointsIn(player_points', pid, "batting")
                      - PointsIn(player_points, pid, "batting") - StrikeRatePart(stats)
                    = IF stats.runs_scored = 0 /\ stats.balls_faced > 0 THEN -2 ELSE 0
      ]_vars

\* a finished match in which the batter was bowled a wide and one ball, scored nothing
\* and was given the penalty once
C8_Witness ==
    /\ pc = "done"
    /\ n_deliveries = 2
    /\ "pA" \in DOMAIN player_stats
    /\ player_stats["pA"].balls_faced = 1
    /\ player_stats["pA"].runs_scored = 0
    /\ PointsIn(player_points, "pA", "batting") = -2

\* the wicket milestone of a wicket count
MilestonePart(stats) ==
    IF stats.wickets = 3 THEN 6 ELSE IF stats.wickets = 4 THEN 10
    ELSE IF stats.wickets = 5 THEN 16 ELSE 0

\* the duck penalty of a player's counters
DuckPart(stats) == IF stats.runs_scored = 0 /\ stats.balls_faced > 0 THEN -2 ELSE 0

\* C9: the strike-rate adjustment is applied only when balls_faced >= 10, and is the
\* value of the band holding runs_scored/balls_faced*100: >=170 -> +6, [150,170) -> +4,
\* [130,150) -> +2, [50,70) -> -2, [0,50) -> -4, otherwise nothing.
ClaimedStrikeRate(stats) ==
    LET r == 100 * stats.runs_scored
        b == stats.balls_faced
    IN  IF b < 10 THEN 0
        ELSE IF r >= 170 * b THEN 6
        ELSE IF r >= 150 * b THEN 4
        ELSE IF r >= 130 * b THEN 2
        ELSE IF r >= 50 * b /\ r < 70 * b THEN -2
        ELSE IF r < 50 * b THEN -4
        ELSE 0

C9_StrikeRateBands ==
    [][ IsFinishStep =>
          \A pid \in PlayerIds :
             LET stats == StatsOf(player_stats, pid)
             IN  PointsIn(player_points', pid, "batting")
                   - PointsIn(player_points, pid, "batting") - DuckPart(stats)
                 = ClaimedStrikeRate(stats)
      ]_vars

\* C10: the economy adjustment is applied only when legal_balls_bowled >= 12, and is the
\* value of the band holding runs_conceded/(legal_balls_bowled/6): [0,5.0] -> +6,
\* [5.01,6.5] -> +4, [6.51,8.0] -> +2, [10.0,11.0] -> -2, [11.01,inf) -> -4; an economy
\* strictly between 8.0 and 10.0 gets nothing.
ClaimedEconomy(stats) ==
    LET e == 600 * stats.runs_conceded      \* economy * 100 * legal balls
        b == stats.legal_balls_bowled
    IN  IF b < 12 THEN 0
        ELSE IF e <= 500 * b THEN 6
        ELSE IF 501 * b <= e /\ e <= 650 * b THEN 4
        ELSE IF 651 * b <= e /\ e <= 800 * b THEN 2
        ELSE IF 1000 * b <= e /\ e <= 1100 * b THEN -2
        ELSE IF 1101 * b <= e THEN -4
        ELSE 0

C10_EconomyRateBands ==
    [][ IsFinishStep =>
          \A pid \in PlayerIds :
             LET stats == StatsOf(player_stats, pid)
             IN  /\ PointsIn(player_points', pid, "bowling")
                      - PointsIn(player_points, pid, "bowling") - MilestonePart(stats)
                    = ClaimedEconomy(stats)
                 /\ (800 * stats.legal_balls_bowled < 600 * stats.runs_conceded
                     /\ 600 * stats.runs_conceded < 1000 * stats.legal_balls_bowled)
                    => PointsIn(player_points', pid, "bowling")
                         = PointsIn(player_points, pid, "bowling") + MilestonePart(stats)
      ]_vars

\* a bowler of 12 legal balls for 21 runs (economy 10.5) and no wicket ends on -2
C10_Witness ==
    /\ pc = "done"
    /\ "pB" \in DOMAIN player_stats
    /\ player_stats["pB"].legal_balls_bowled = 12
    /\ player_stats["pB"].runs_conceded = 21
    /\ player_stats["pB"].wickets = 0
    /\ "pB" \in DOMAIN final_scores
    /\ final_scores["pB"].total_points = -2

(***************************************************************************)
(* TeamSelector                                                            *)
(***************************************************************************)
Roles == {"WK", "BAT", "AR", "BOWL"}
TeamNames == {"TeamA", "TeamB"}

\* the hard constraints of select_team (credits in hundredths)
TeamSize == 11
Budget == 10000
MinWKs == 1
MaxWKs == 4
MinBATs == 3
MaxBATs == 6
MinARs == 1
MaxARs == 4
MinBOWLs == 3
MaxBOWLs == 6
MaxPlayersPerTeam == 7
MinPlayersPerTeam == 1

\* bounds of the squads
MinSquad == 9
MaxSquad == 12
MaxFp == 6

\* self.player_ids
PlayerIdsOf(sq) == 1..Len(sq)

\* self.teams = players_df['team'].unique()
TeamsOf(sq) == {sq[i].team : i \in PlayerIdsOf(sq)}

\* lpSum(players_df.loc[p, column] * player_vars[p]) at a 0/1 assignment whose ones are T
RECURSIVE LpSum(_, _, _)
LpSum(sq, T, column) ==
    IF T = {} THEN 0
    ELSE LET i == CHOOSE x \in T : TRUE
         IN  sq[i][column] + LpSum(sq, T \ {i}, column)

\* role_map[r]
RoleMap(sq, T, r) == {i \in T : sq[i].role = r}

\* lines 31-40: total_points + neg_credits + num_ars, in hundredths
Objective(sq, T) ==
    100 * LpSum(sq, T, "predicted_fp") - LpSum(sq, T, "credits")
    + 100 * Cardinality(RoleMap(sq, T, "AR"))

\* lines 45-72: the constraints added to prob
SatisfiesConstraints(sq, T) ==
    /\ Cardinality(T) = TeamSize
    /\ LpSum(sq, T, "credits") <= Budget
    /\ Cardinality(RoleMap(sq, T, "WK")) >= MinWKs
    /\ Cardinality(RoleMap(sq, T, "WK")) <= MaxWKs
    /\ Cardinality(RoleMap(sq, T, "BAT")) >= MinBATs
    /\ Cardinality(RoleMap(sq, T, "BAT")) <= MaxBATs
    /\ Cardinality(RoleMap(sq, T, "AR")) >= MinARs
    /\ Cardinality(RoleMap(sq, T, "AR")) <= MaxARs
    /\ Cardinality(RoleMap(sq, T, "BOWL")) >= MinBOWLs
    /\ Cardinality(RoleMap(sq, T, "BOWL")) <= MaxBOWLs
    /\ \A team \in TeamsOf(sq) :
          LET team_players == {i \in T : sq[i].team = team}
          IN  /\ Cardinality(team_players) <= MaxPlayersPerTeam
              /\ Cardinality(TeamsOf(sq)) > 1 =>
                    Cardinality(team_players) >= MinPlayersPerTeam

\* the subsets of S that leave k of its elements out
RECURSIVE DropK(_, _)
DropK(S, k) ==
    IF k = 0 THEN {S}
    ELSE UNION {DropK(S \ {x}, k - 1) : x \in S}

\* the 0/1 assignments of player_vars with exactly TeamSize ones
Elevens(sq) ==
    IF Len(sq) < TeamSize THEN {}
    ELSE DropK(PlayerIdsOf(sq), Len(sq) - TeamSize)

\* the feasible region of prob
FeasibleTeams(sq) == {T \in Elevens(sq) : SatisfiesConstraints(sq, T)}

\* prob.solve() on a feasible problem: the optimal assignments
OptimalTeams(sq) ==
    LET feasible == FeasibleTeams(sq)
    IN  {T \in feasible : \A U \in feasible : Objective(sq, U) <= Objective(sq, T)}

\* lines 75-78: prob.solve() and the ids whose varValue == 1.  On an infeasible problem
\* the solver ends with status Infeasible, which select_team does not read, and the
\* values it leaves in the variables are unspecified: any subset of the ids may read 1.
SolveOutcomes(sq) ==
    IF FeasibleTeams(sq) # {} THEN OptimalTeams(sq) ELSE SUBSET PlayerIdsOf(sq)

\* the squads: eleven core players, then bench players
CoreRoles == <<"WK", "BAT", "BAT", "BAT", "AR", "BOWL", "BOWL", "BOWL", "BAT", "BOWL", "AR">>
CoreFp == 5
CoreCredits == 850
DearCredits == 950
FpValues == (MaxFp - 1)..MaxFp
CreditValues == {800, 900, 1050}
Variants == {"plain", "no_keeper", "single_team", "dear"}

CorePlayer(i, variant) ==
    [predicted_fp |-> CoreFp,
     credits |-> IF variant = "dear" THEN DearCredits ELSE CoreCredits,
     role |-> IF i = 1 /\ variant = "no_keeper" THEN "BAT" ELSE CoreRoles[i],
     team |-> IF variant = "single_team" \/ i % 2 = 1 THEN "TeamA" ELSE "TeamB"]

BenchPlayers == [predicted_fp : FpValues, credits : CreditValues, role : Roles, team : TeamNames]

Squads ==
    {[i \in 1..n |-> CorePlayer(i, variant)] :
        n \in MinSquad..TeamSize, variant \in Variants}
    \cup {[i \in 1..n |-> IF i <= TeamSize THEN CorePlayer(i, variant) ELSE bench] :
            n \in (TeamSize + 1)..MaxSquad, variant \in Variants, bench \in BenchPlayers}

\* the engines a solver specification does not run
IdleScoring ==
    /\ match_data = <<>>
    /\ player_points = EmptyFn
    /\ player_stats = EmptyFn
    /\ runs_in_over = 0
    /\ over_len = 0
    /\ delivery = <<>>
    /\ n_deliveries = 0
    /\ n_overs = 0
    /\ final_scores = EmptyFn

\* TeamSelector.__init__ (main.py line 127)
InitSolver ==
    /\ pc = "constructed"
    /\ squad \in Squads
    /\ selected_ids = {}
    /\ response = None
    /\ IdleScoring
    /\ IdleCredits

\* TeamSelector.select_team (main.py line 128)
SelectTeam ==
    /\ pc = "constructed"
    /\ selected_ids' \in SolveOutcomes(squad)
    /\ pc' = "selected"
    /\ UNCHANGED <<squad, response>>
    /\ UNCHANGED idleOfSolver

\* create_prediction after select_team returned (main.py lines 130-172)
CreatePrediction ==
    /\ pc = "selected"
    /\ response' = IF selected_ids = {} THEN "422" ELSE "200"
    /\ pc' = "responded"
    /\ UNCHANGED <<squad, selected_ids>>
    /\ UNCHANGED idleOfSolver

NextSolver == SelectTeam \/ CreatePrediction

SpecSolver == InitSolver /\ [][NextSolver]_vars

(***************************************************************************)
(* Properties of the team selection                                        *)
(***************************************************************************)
\* the players of T with a role / of a team, and the sums the hard constraints bound
CountRole(sq, T, r) == Cardinality({i \in T : sq[i].role = r})
CountTeam(sq, T, t) == Cardinality({i \in T : sq[i].team = t})

RECURSIVE SumCredits(_, _)
SumCredits(sq, T) ==
    IF T = {} THEN 0
    ELSE LET i == CHOOSE x \in T : TRUE IN sq[i].credits + SumCredits(sq, T \ {i})

RECURSIVE SumFp(_, _)
SumFp(sq, T) ==
    IF T = {} THEN 0
    ELSE LET i == CHOOSE x \in T : TRUE IN sq[i].predicted_fp + SumFp(sq, T \ {i})

\* a legal XI as the specification states it
LegalTeam(sq, T) ==
    /\ T \subseteq 1..Len(sq)
    /\ Cardinality(T) = 11
    /\ SumCredits(sq, T) <= 10000
    /\ CountRole(sq, T, "WK") \in 1..4
    /\ CountRole(sq, T, "BAT") \in 3..6
    /\ CountRole(sq, T, "AR") \in 1..4
    /\ CountRole(sq, T, "BOWL") \in 3..6
    /\ \A t \in {sq[i].team : i \in 1..Len(sq)} : CountTeam(sq, T, t) <= 7
    /\ Cardinality({sq[i].team : i \in 1..Len(sq)}) > 1 =>
          \A t \in {sq[i].team : i \in 1..Len(sq)} : CountTeam(sq, T, t) >= 1

\* the legal XIs of a squad
LegalTeams(sq) ==
    IF Len(sq) < 11 THEN {}
    ELSE {T \in DropK(1..Len(sq), Len(sq) - 11) : LegalTeam(sq, T)}

\* C1: a result that is treated as successful is a legal XI: 11 distinct players,
\* credits <= 100, role counts and team counts within their bounds.
C1_SuccessfulTeamIsLegal ==
    (pc = "responded" /\ response = "200") => LegalTeam(squad, selected_ids)

\* C2: a squad with no legal XI ends in the explicit infeasibility outcome; no empty or
\* short team is passed on as a result.
C2_InfeasibleIsReported ==
    (pc = "responded" /\ LegalTeams(squad) = {}) => response = "422"

\* C3: for a feasible squad the returned team has the maximum total predicted_fp among
\* the legal XIs.
C3_MaxPredictedFp ==
    (pc = "selected" /\ LegalTeams(squad) # {}) =>
        \A T \in LegalTeams(squad) : SumFp(squad, T) <= SumFp(squad, selected_ids)

(***************************************************************************)
(* PlayerDataProcessor.get_player_role                                     *)
(***************************************************************************)
\* a role cell that is missing in a role table reads as NaN, which equals nothing
NaN == "nan"
DefaultRole == "BAT"

\* dates are day numbers; datetime.strptime(match_date, '%Y-%m-%d').year
DaysPerYear == 365
Year(date) == date \div DaysPerYear

\* the two role files as __init__ finds them: both readable, with their rows, or not
RoleFileRows ==
    {<<>>,
     << [player_id |-> "h5", season |-> 0, role |-> "BAT"],
        [player_id |-> "h5", season |-> 0, role |-> "AR"],
        [player_id |-> "h2", season |-> 1, role |-> "WK"] >>,
     << [player_id |-> "h1", season |-> 1, role |-> "AR"] >>}
RoleFileIndex ==
    {EmptyFn,
     ("h1" :> "BOWL") @@ ("h3" :> NaN) @@ ("h5" :> "WK") @@ ("new" :> "BOWL"),
     ("h2" :> "WK")}
RoleFiles ==
    [found : {TRUE}, seasonal : RoleFileRows, global : RoleFileIndex]
        \cup {[found |-> FALSE, seasonal |-> <<>>, global |-> EmptyFn]}

\* PlayerDataProcessor.__init__: the frames read from the files, or two frames without
\* rows and without columns when a file is not found
LoadRoleTables(files) ==
    IF files.found
    THEN [has_columns |-> TRUE, seasonal |-> files.seasonal, global |-> files.global]
    ELSE [has_columns |-> FALSE, seasonal |-> <<>>, global |-> EmptyFn]

\* the exception seasonal_roles_df['player_id'] raises on a frame without columns
KeyError == "KeyError"

\* the rows of one player and one season of seasonal_roles_df, in table order
SeasonalRole(tables, player_id, season) ==
    SelectSeq(tables.seasonal, LAMBDA row : row.player_id = player_id /\ row.season = season)

\* seasonal role, else global role, else 'BAT'; the seasonal lookup is outside the try
GetPlayerRole(tables, player_id, date) ==
    LET seasonal_role == SeasonalRole(tables, player_id, Year(date))
    IN IF ~tables.has_columns THEN KeyError
       ELSE IF seasonal_role # <<>> THEN seasonal_role[1].role
       ELSE IF player_id \in DOMAIN tables.global THEN tables.global[player_id]
       ELSE DefaultRole

(***************************************************************************)
(* CreditsCalculator                                                       *)
(* Credits are exact rationals [num, den] in hundredths of a credit, so    *)
(* that rounding to two decimals is a step of the model.                   *)
(***************************************************************************)
TailWindow == 10
MinAppearances == 10
DefaultCredit == 600
FallbackMedian == 750
NoEntryCredit == 0
ClipLow == 400
ClipHigh == 1100
TopCredit == 1100

\* credit_bands, in dict order; ranges in hundredths of a credit
CreditBands ==
    << [name |-> "top",    min_c |-> 1050, max_c |-> 1100, min_p |-> 90, max_p |-> 100],
       [name |-> "next",   min_c |-> 900,  max_c |-> 1000, min_p |-> 70, max_p |-> 90],
       [name |-> "middle", min_c |-> 700,  max_c |-> 850,  min_p |-> 30, max_p |-> 70],
       [name |-> "bottom", min_c |-> 400,  max_c |-> 650,  min_p |-> 0,  max_p |-> 30] >>

RECURSIVE Gcd(_, _)
Gcd(a, b) == IF b = 0 THEN a ELSE Gcd(b, a % b)

Rat(num, den) == LET g == Gcd(num, den) IN [num |-> num \div g, den |-> den \div g]
Whole(n) == [num |-> n, den |-> 1]
RatLess(a, b) == a.num * b.den < b.num * a.den
RatMean(a, b) == Rat(a.num * b.den + b.num * a.den, 2 * a.den * b.den)

\* a changed PreMatchHistory: the rows of the target date itself are kept
PreMatchHistory_Inclusive(store, date) ==
    SelectSeq(store, LAMBDA row : row.match_date <= date)

\* historical_df[historical_df['match_date'] < match_date_dt]
PreMatchHistory(store, date) ==
    SelectSeq(store, LAMBDA row : row.match_date < date)

\* groupby('player_id'): the keys, and the rows of one key in stored order
GroupKeys(rows) == {rows[i].player_id : i \in 1..Len(rows)}
Group(rows, player_id) == SelectSeq(rows, LAMBDA row : row.player_id = player_id)

\* group['actual_fp'].tail(10): the last rows as they are stored
TailRows(rows, n) ==
    IF Len(rows) <= n THEN rows ELSE SubSeq(rows, Len(rows) - n + 1, Len(rows))

RECURSIVE SumFpOf(_)
SumFpOf(rows) ==
    IF rows = <<>> THEN 0 ELSE rows[1].actual_fp + SumFpOf(Tail(rows))

RECURSIVE SumSquaresOf(_)
SumSquaresOf(rows) ==
    IF rows = <<>> THEN 0 ELSE rows[1].actual_fp * rows[1].actual_fp + SumSquaresOf(Tail(rows))

\* _calculate_composite_score: 0.7 * mean + 0.3 * (mean - std) = mean - 0.3 * std, with
\* mean = s / n and std = sqrt(q / (n * (n - 1))) for q = n * sum of squares - s * s
\* (std is 0 for n = 1).  The score is kept as the triple it is a function of.
CalculateCompositeScore(fp_series) ==
    LET n == Len(fp_series)
        s == SumFpOf(fp_series)
    IN [n |-> n, s |-> s, q |-> n * SumSquaresOf(fp_series) - s * s]

\* a < b for two composite scores over TailWindow rows each:
\* 10 * score = s - sqrt(q / 10), compared exactly by squaring
CompositeLess(a, b) ==
    LET d == a.s - b.s
        t == a.q - b.q - 10 * d * d
    IN IF d >= 0
       THEN t > 0 /\ 40 * d * d * b.q < t * t
       ELSE b.q < 10 * d * d \/ t > 0 \/ 40 * d * d * b.q > t * t

\* one row of stats_df per player of the pre-match history
StatsOfHistory(pre_match_history, tables, date) ==
    [player_id \in GroupKeys(pre_match_history) |->
        LET group == Group(pre_match_history, player_id)
        IN [appearances |-> Len(group),
            composite_score |-> CalculateCompositeScore(TailRows(group, TailWindow)),
            role |-> GetPlayerRole(tables, player_id, date)]]

\* stats_df[stats_df['appearances'] >= 10]
PercentilePool(stats_df) ==
    {player_id \in DOMAIN stats_df : stats_df[player_id].appearances >= MinAppearances}

\* percentile_pool[percentile_pool['role'] == role]: NaN equals no role, itself included
RolePool(stats_df, role) ==
    IF role = NaN THEN {}
    ELSE {player_id \in PercentilePool(stats_df) : stats_df[player_id].role = role}

\* a changed PercentileOfScore: the scores above x are counted instead of those below
PercentileOfScore_Descending(stats_df, role_pool, player_id) ==
    LET x == stats_df[player_id].composite_score
        left == Cardinality({o \in role_pool :
                    CompositeLess(x, stats_df[o].composite_score)})
        right == Cardinality({o \in role_pool :
                    ~CompositeLess(stats_df[o].composite_score, x)})
    IN <<left + right + (IF left < right THEN 1 ELSE 0), Cardinality(role_pool)>>

\* scipy percentileofscore(scores, x), kind 'rank': (left + right + [left < right]) * 50 / n,
\* returned as the pair <<k, n>> standing for k * 50 / n
PercentileOfScore(stats_df, role_pool, player_id) ==
    LET x == stats_df[player_id].composite_score
        left == Cardinality({o \in role_pool :
                    CompositeLess(stats_df[o].composite_score, x)})
        right == Cardinality({o \in role_pool :
                    ~CompositeLess(x, stats_df[o].composite_score)})
    IN <<left + right + (IF left < right THEN 1 ELSE 0), Cardinality(role_pool)>>

\* get_credit: the first band with min_p <= p < max_p, interpolated; 11.0 if none
RECURSIVE GetCreditFrom(_, _)
GetCreditFrom(bands, p) ==
    IF bands = <<>> THEN Whole(TopCredit)
    ELSE LET band == bands[1]
             k == p[1]
             n == p[2]
             span == band.max_p - band.min_p
         IN IF band.min_p * n <= 50 * k /\ 50 * k < band.max_p * n
            THEN Rat(band.min_c * n * span
                        + (50 * k - band.min_p * n) * (band.max_c - band.min_c),
                     n * span)
            ELSE GetCreditFrom(Tail(bands), p)

GetCredit(p) == GetCreditFrom(CreditBands, p)

\* role_pool['credits'] of one role
PoolCredits(stats_df, role) ==
    [player_id \in RolePool(stats_df, role) |->
        GetCredit(PercentileOfScore(stats_df, RolePool(stats_df, role), player_id))]

\* the values of a credit column in ascending order
RECURSIVE SortedCredits(_, _)
SortedCredits(column, ids) ==
    IF ids = {} THEN <<>>
    ELSE LET low == CHOOSE i \in ids : \A j \in ids : ~RatLess(column[j], column[i])
         IN <<column[low]>> \o SortedCredits(column, ids \ {low})

\* Series.median(): the middle value, or the mean of the two middle values
Median(column) ==
    LET sorted == SortedCredits(column, DOMAIN column)
        n == Len(sorted)
    IN IF n % 2 = 1 THEN sorted[(n + 1) \div 2]
       ELSE RatMean(sorted[n \div 2], sorted[n \div 2 + 1])

\* the roles percentile_pool['role'].unique() gives a non-empty role_pool for
MedianRoles(stats_df) ==
    {stats_df[player_id].role : player_id \in PercentilePool(stats_df)} \ {NaN}

\* role_median_credits
RoleMedianCredits(stats_df) ==
    [role \in MedianRoles(stats_df) |-> Median(PoolCredits(stats_df, role))]

\* a changed SquadCredit: a newcomer gets the 7.5 fallback whatever the role's median is
SquadCredit_FlatNewcomer(stats_df, tables, date, player_id) ==
    LET player_appearances ==
            IF player_id \in DOMAIN stats_df THEN stats_df[player_id].appearances ELSE 0
    IN IF player_appearances >= MinAppearances
       THEN LET credit_entry == PoolCredits(stats_df, stats_df[player_id].role)
            IN IF player_id \in DOMAIN credit_entry THEN credit_entry[player_id]
               ELSE Whole(NoEntryCredit)
       ELSE Whole(FallbackMedian)

\* the credit_val of one squad player before rounding and clipping
SquadCredit(stats_df, tables, date, player_id) ==
    LET player_appearances ==
            IF player_id \in DOMAIN stats_df THEN stats_df[player_id].appearances ELSE 0
        player_role == GetPlayerRole(tables, player_id, date)
        role_median_credits == RoleMedianCredits(stats_df)
    IN IF player_appearances >= MinAppearances
       THEN LET credit_entry == PoolCredits(stats_df, stats_df[player_id].role)
            IN IF player_id \in DOMAIN credit_entry THEN credit_entry[player_id]
               ELSE Whole(NoEntryCredit)
       ELSE IF player_role \in DOMAIN role_median_credits
            THEN role_median_credits[player_role]
            ELSE Whole(FallbackMedian)

\* round(2): to the nearest hundredth, a tie to the even one
Round2(c) ==
    LET whole == c.num \div c.den
        rest == c.num % c.den
    IN IF 2 * rest < c.den THEN Whole(whole)
       ELSE IF 2 * rest > c.den THEN Whole(whole + 1)
       ELSE IF whole % 2 = 0 THEN Whole(whole) ELSE Whole(whole + 1)

\* a changed Clip: no lower limit
Clip_UpperOnly(c) ==
    IF RatLess(Whole(ClipHigh), c) THEN Whole(ClipHigh) ELSE c

\* clip(4.0, 11.0)
Clip(c) ==
    IF RatLess(c, Whole(ClipLow)) THEN Whole(ClipLow)
    ELSE IF RatLess(Whole(ClipHigh), c) THEN Whole(ClipHigh)
    ELSE c

\* a changed get_credits_for_match: an empty pre-match history is priced like any other
CreditsForMatch_NoEpochDefault(store, tables, squad_player_ids, date) ==
    LET pre_match_history == PreMatchHistory(store, date)
        ids == {squad_player_ids[i] : i \in 1..Len(squad_player_ids)}
        stats_df == StatsOfHistory(pre_match_history, tables, date)
    IN [player_id \in ids |->
           Clip(Round2(SquadCredit(stats_df, tables, date, player_id)))]

\* get_credits_for_match: the credits column of result_df, indexed by player_id
CreditsForMatch(store, tables, squad_player_ids, date) ==
    LET pre_match_history == PreMatchHistory(store, date)
        ids == {squad_player_ids[i] : i \in 1..Len(squad_player_ids)}
    IN IF pre_match_history = <<>> THEN [player_id \in ids |-> Whole(DefaultCredit)]
       ELSE LET stats_df == StatsOfHistory(pre_match_history, tables, date)
            IN [player_id \in ids |->
                   Clip(Round2(SquadCredit(stats_df, tables, date, player_id)))]

(***************************************************************************)
(* SpecCredits: a calculator built over a record store, asked for the      *)
(* credits of one squad at one target date, and asked again after the      *)
(* store gained or lost a row dated on or after the target date.           *)
(***************************************************************************)
MaxLevel == 2

HistOrder == <<"h1", "h2", "h3", "h4", "h5">>
HistPlayers == {HistOrder[i] : i \in 1..Len(HistOrder)}
SquadPlayerIds == HistOrder \o <<"new">>

\* careers: never played, one match short of the pool, two matches past the window
ShortCareer == MinAppearances - 1
LongCareer == TailWindow + 2
Careers(player_id) ==
    IF player_id = "h1" THEN {0, ShortCareer, LongCareer}
    ELSE IF player_id = "h2" THEN {ShortCareer, LongCareer}
    ELSE {LongCareer}
\* the levels of actual_fp a player's rows may have: every level for the three players
\* that share a role pool under both role tables, the lowest and the highest for the rest
Levels(player_id) ==
    IF player_id \in {"h1", "h3"} THEN {1, MaxLevel} ELSE 1..MaxLevel
Profiles ==
    {profiles \in [HistPlayers -> [count : {0, ShortCareer, LongCareer}, level : 1..MaxLevel]] :
        \A player_id \in HistPlayers :
            /\ profiles[player_id].count \in Careers(player_id)
            /\ profiles[player_id].level \in Levels(player_id)}

\* a player's j-th match is on day j; the points rise by one after the first ten matches
RowOf(player_id, profile, j) ==
    [player_id |-> player_id, match_date |-> j,
     actual_fp |-> profile.level + (IF j > TailWindow THEN 1 ELSE 0)]

RECURSIVE MatchRows(_, _, _)
MatchRows(profiles, j, i) ==
    IF i > Len(HistOrder) THEN <<>>
    ELSE (IF profiles[HistOrder[i]].count >= j
          THEN <<RowOf(HistOrder[i], profiles[HistOrder[i]], j)>> ELSE <<>>)
         \o MatchRows(profiles, j, i + 1)

RECURSIVE StoreFrom(_, _)
StoreFrom(profiles, j) ==
    IF j > LongCareer THEN <<>>
    ELSE MatchRows(profiles, j, 1) \o StoreFrom(profiles, j + 1)

Reverse(rows) == [i \in 1..Len(rows) |-> rows[Len(rows) + 1 - i]]

\* the stores: one row per player and match, oldest match first or newest match first
Stores ==
    {StoreFrom(profiles, 1) : profiles \in Profiles}
        \cup {Reverse(StoreFrom(profiles, 1)) : profiles \in Profiles}

\* the first match day, the day a short career ends, the day after ten matches, the day
\* after the last match
TargetDates == {1, ShortCareer + 1, TailWindow + 1, LongCareer + 1}

\* role tables read from files that were found
NoRoleTables == LoadRoleTables([found |-> TRUE, seasonal |-> <<>>, global |-> EmptyFn])
SomeRoleTables ==
    LoadRoleTables(
        [found |-> TRUE,
         seasonal |-> << [player_id |-> "h5", season |-> 0, role |-> "BAT"],
                         [player_id |-> "h5", season |-> 0, role |-> "AR"],
                         [player_id |-> "h2", season |-> 1, role |-> "WK"] >>,
         global |-> ("h1" :> "BOWL") @@ ("h3" :> NaN) @@ ("h5" :> "WK") @@ ("new" :> "BOWL")])
RoleTableChoices == {NoRoleTables, SomeRoleTables}

InitCredits ==
    /\ pc = "loaded"
    /\ IdleScoring
    /\ IdleSolver
    /\ historical_df \in Stores
    /\ role_tables \in RoleTableChoices
    /\ match_date \in TargetDates
    /\ credits = EmptyFn
    /\ role_lookup = <<>>

GetCreditsForMatch ==
    /\ pc \in {"loaded", "altered"}
    /\ credits' = CreditsForMatch(historical_df, role_tables, SquadPlayerIds, match_date)
    /\ pc' = IF pc = "loaded" THEN "credited" ELSE "recomputed"
    /\ UNCHANGED <<historical_df, role_tables, match_date, role_lookup>>
    /\ UNCHANGED idleOfCredits

\* a row of a match on or after the target date reaches the store
AppendLaterRow ==
    /\ pc = "credited"
    /\ \E player_id \in {"h1", "h3", "new"}, date \in {match_date, match_date + 1},
          fp \in {0, MaxLevel + 1} :
          historical_df' = Append(historical_df,
              [player_id |-> player_id, match_date |-> date, actual_fp |-> fp])
    /\ pc' = "altered"
    /\ UNCHANGED <<role_tables, match_date, credits, role_lookup>>
    /\ UNCHANGED idleOfCredits

\* the rows of a match on or after the target date leave the store
RemoveLaterMatch ==
    /\ pc = "credited"
    /\ \E i \in 1..Len(historical_df) :
          /\ historical_df[i].match_date >= match_date
          /\ historical_df' = SelectSeq(historical_df,
                LAMBDA row : row.match_date # historical_df[i].match_date)
    /\ pc' = "altered"
    /\ UNCHANGED <<role_tables, match_date, credits, role_lookup>>
    /\ UNCHANGED idleOfCredits

NextCredits ==
    \/ GetCreditsForMatch
    \/ AppendLaterRow
    \/ RemoveLaterMatch

SpecCredits == InitCredits /\ [][NextCredits]_vars

(***************************************************************************)
(* SpecRoles: a PlayerDataProcessor built over the two role files, asked   *)
(* for the role of a player at a date.                                     *)
(***************************************************************************)
LookupDates == {1, DaysPerYear - 1, DaysPerYear + 1}

InitRoles ==
    /\ pc = "loaded"
    /\ IdleScoring
    /\ IdleSolver
    /\ historical_df = <<>>
    /\ match_date = 0
    /\ credits = EmptyFn
    /\ role_tables \in {LoadRoleTables(files) : files \in RoleFiles}
    /\ role_lookup = <<>>

GetPlayerRoleCall ==
    /\ pc \in {"loaded", "resolved", "raised"}
    /\ \E player_id \in {SquadPlayerIds[i] : i \in 1..Len(SquadPlayerIds)}, date \in LookupDates :
          LET outcome == GetPlayerRole(role_tables, player_id, date)
          IN  /\ role_lookup' = <<[player_id |-> player_id, date |-> date,
                                    outcome |-> outcome]>>
              /\ pc' = IF outcome = KeyError THEN "raised" ELSE "resolved"
    /\ UNCHANGED <<historical_df, role_tables, match_date, credits>>
    /\ UNCHANGED idleOfCredits

NextRoles == GetPlayerRoleCall

SpecRoles == InitRoles /\ [][NextRoles]_vars

(***************************************************************************)
(* Properties of the credit valuation                                      *)
(***************************************************************************)
SquadIds == {SquadPlayerIds[i] : i \in 1..Len(SquadPlayerIds)}

\* the rows the call may use, and the players with ten or more of them
PriorRows == SelectSeq(historical_df, LAMBDA row : row.match_date < match_date)
PriorAppearances(player_id) ==
    Len(SelectSeq(PriorRows, LAMBDA row : row.player_id = player_id))
Experienced == {player_id \in SquadIds : PriorAppearances(player_id) >= 10}

\* C4: the credits of a squad at a target date depend on the rows dated before it only:
\* asked again after a row dated on or after the target date was added, or the rows
\* of such a match were taken out, the calculator returns the same credits.
C4_NoLeakage ==
    [][pc = "altered" => credits' = credits]_vars

\* the second call has answered over a store that holds a row of the target date
\* itself, with experienced players and newcomers in the squad
C4_Witness ==
    /\ pc = "recomputed"
    /\ \E i \in 1..Len(historical_df) : historical_df[i].match_date = match_date
    /\ Experienced # {}
    /\ \E player_id \in SquadIds : PriorAppearances(player_id) \in 1..9

\* C5: every credit returned lies in [4.0, 11.0] and is a whole number of hundredths.
C5_CreditsInRange ==
    pc \in {"credited", "recomputed"} =>
        /\ DOMAIN credits = SquadIds
        /\ \A player_id \in SquadIds :
              /\ credits[player_id].num % credits[player_id].den = 0
              /\ 400 * credits[player_id].den <= credits[player_id].num
              /\ credits[player_id].num <= 1100 * credits[player_id].den

\* a call that rounded a banded credit lying between two hundredths, priced a newcomer,
\* and met an experienced player whose role is missing (no banded entry)
C5_Witness ==
    /\ pc = "credited"
    /\ PriorRows # <<>>
    /\ \E player_id \in Experienced :
          SquadCredit(StatsOfHistory(PriorRows, role_tables, match_date),
                      role_tables, match_date, player_id).den > 1
    /\ \E player_id \in Experienced : GetPlayerRole(role_tables, player_id, match_date) = NaN
    /\ SquadIds \ Experienced # {}

\* the stats_df of the call
PriorStats == StatsOfHistory(PriorRows, role_tables, match_date)

\* C11: of two players of the experienced pool of one role, the one with the strictly
\* higher composite score never gets the strictly lower credit.
C11_MonotoneBanding ==
    pc \in {"credited", "recomputed"} =>
        LET stats == PriorStats
            pool == {player_id \in SquadIds \cap DOMAIN stats :
                        stats[player_id].appearances >= 10 /\ stats[player_id].role # NaN}
        IN  \A a \in pool, b \in pool :
                (stats[a].role = stats[b].role
                    /\ CompositeLess(stats[a].composite_score, stats[b].composite_score))
                => ~RatLess(credits[b], credits[a])

\* a call that priced two players of one pool with different composite scores differently
C11_Witness ==
    /\ pc = "credited"
    /\ \E a \in Experienced, b \in Experienced :
          /\ PriorStats[a].role = PriorStats[b].role
          /\ PriorStats[a].role # NaN
          /\ CompositeLess(PriorStats[a].composite_score, PriorStats[b].composite_score)
          /\ RatLess(credits[a], credits[b])

\* the median credit of the experienced pool of a role, 7.5 for a role without a pool
MedianIn(medians, role) ==
    IF role \in DOMAIN medians THEN medians[role] ELSE Whole(750)

\* C13: with a non-empty history before the target date, a squad player with fewer than
\* 10 prior appearances gets a credit within 0.5 of the median credit m of the
\* experienced pool of the player's role (m = 7.5 without a pool), and within [4.0, 11.0].
C13_NewcomerNearMedian ==
    (pc \in {"credited", "recomputed"} /\ PriorRows # <<>>) =>
        LET medians == RoleMedianCredits(PriorStats)
        IN  \A player_id \in SquadIds \ Experienced :
                LET m == MedianIn(medians, GetPlayerRole(role_tables, player_id, match_date))
                    c == credits[player_id]
                IN  /\ c.den = 1
                    /\ m.num - 50 * m.den <= c.num * m.den
                    /\ c.num * m.den <= m.num + 50 * m.den
                    /\ 400 <= c.num /\ c.num <= 1100

\* a call that priced a player absent from the history and a player with a short
\* history by the medians of their roles' pools, neither of them 7.5
C13_Witness ==
    /\ pc = "credited"
    /\ PriorRows # <<>>
    /\ PriorAppearances("new") = 0
    /\ LET medians == RoleMedianCredits(PriorStats)
       IN  /\ GetPlayerRole(role_tables, "new", match_date) \in DOMAIN medians
           /\ credits["new"] \notin {Whole(750), Whole(600)}
           /\ \E player_id \in SquadIds \ Experienced :
                 /\ PriorAppearances(player_id) > 0
                 /\ GetPlayerRole(role_tables, player_id, match_date) \in DOMAIN medians
                 /\ credits[player_id] \notin {Whole(750), credits["new"]}

(***************************************************************************)
(* Properties of the role lookup                                           *)
(***************************************************************************)
\* the roles the seasonal table records for a player and the year of a date
RecordedSeasonalRoles(player_id, date) ==
    {role_tables.seasonal[i].role :
        i \in {j \in 1..Len(role_tables.seasonal) :
                 /\ role_tables.seasonal[j].player_id = player_id
                 /\ role_tables.seasonal[j].season = date \div 365}}

\* C14: a role lookup never fails: it returns the seasonal role recorded for the player
\* and the year of the date, else the global role recorded for the player, else BAT,
\* whatever the two tables hold (nothing at all included).
C14_RoleAlwaysResolved ==
    role_lookup # <<>> =>
        LET call == role_lookup[1]
            seasonal == RecordedSeasonalRoles(call.player_id, call.date)
        IN  /\ pc # "raised"
            /\ call.outcome \in
                 IF seasonal # {} THEN seasonal
                 ELSE IF call.player_id \in DOMAIN role_tables.global
                      THEN {role_tables.global[call.player_id]}
                      ELSE {"BAT"}

(***************************************************************************)
(* Properties of the scoring engine: actors, milestones, invocations       *)
(***************************************************************************)
RegisteredNames == {"A", "B", "C"}

\* the names a delivery gives its fielders
FielderNames(d) ==
    UNION {{d.wickets[i].fielders[j] : j \in 1..Len(d.wickets[i].fielders)} :
             i \in 1..Len(d.wickets)}

NamesUnregistered(d) ==
    \/ d.batter \notin RegisteredNames
    \/ d.bowler \notin RegisteredNames
    \/ d.wickets # <<>> /\ FielderNames(d) \ RegisteredNames # {}

\* the delivery names this player as its batter, its bowler or one of its fielders
Named(d, name) ==
    \/ d.batter = name
    \/ d.bowler = name
    \/ d.wickets # <<>> /\ name \in FielderNames(d)

\* the dismissals of a delivery credited to a name as the bowler
Taken(d, name) ==
    IF d.bowler = name /\ d.wickets # <<>>
    THEN {i \in 1..Len(d.wickets) : d.wickets[i].kind # "run out"}
    ELSE {}

\* the places <<dismissal, fielder>> of a delivery that hold a name
Held(d, name) ==
    UNION {{<<i, j>> : j \in {k \in 1..Len(d.wickets[i].fielders) :
                                 d.wickets[i].fielders[k] = name}} :
             i \in 1..Len(d.wickets)}

\* the batting points the scoring rules attribute to one name for one delivery
BattingShare(d, name) ==
    IF d.batter = name
    THEN d.runs_batter + (IF d.runs_batter = 4 THEN 1 ELSE 0)
                       + (IF d.runs_batter = 6 THEN 2 ELSE 0)
    ELSE 0

\* the bowling points the scoring rules attribute to one name for one delivery
BowlingShare(d, name) ==
    IF d.bowler # name \/ d.wickets = <<>> THEN 0
    ELSE 25 * Cardinality(Taken(d, name))
         + 8 * Cardinality({i \in Taken(d, name) : d.wickets[i].kind \in {"bowled", "lbw"}})

\* the fielding points of one place among the fielders of a dismissal
PlaceShare(w) ==
    IF w.kind = "run out" THEN (IF Len(w.fielders) = 1 THEN 12 ELSE 6)
    ELSE IF w.kind = "stumped" THEN 12 ELSE 8

\* the fielding points the scoring rules attribute to one name for one delivery
FieldingShare(d, name) ==
    IF d.wickets = <<>> THEN 0
    ELSE 12 * Cardinality({h \in Held(d, name) : PlaceShare(d.wickets[h[1]]) = 12})
         + 8 * Cardinality({h \in Held(d, name) : PlaceShare(d.wickets[h[1]]) = 8})
         + 6 * Cardinality({h \in Held(d, name) : PlaceShare(d.wickets[h[1]]) = 6})

\* the catches the scoring rules attribute to one name for one delivery
CatchesShare(d, name) ==
    IF d.wickets = <<>> THEN 0
    ELSE Cardinality({h \in Held(d, name) : d.wickets[h[1]].kind \notin {"run out", "stumped"}})

\* the runs conceded by one delivery
ConcededShare(d) ==
    d.runs_batter + (IF d.extras.kind \in {"wides", "noballs"} THEN d.extras.runs ELSE 0)

\* what an accumulator holds for a player: <<the entry>>, or <<>> when never touched
EntryOf(acc, pid) == IF pid \in DOMAIN acc THEN <<acc[pid]>> ELSE <<>>

\* C15: a delivery that names an unregistered batter, bowler or fielder does not end the
\* pass, gives nothing to an id outside the registry, leaves the registered players it
\* does not name untouched, and gives every registered player it names exactly what the
\* delivery attributes to that player; an over of an unregistered bowler ends without a
\* bonus and without ending the pass.
C15_FailSoftScoring ==
    [][ /\ (IsDeliveryStep /\ NamesUnregistered(delivery'[1])) =>
             LET d == delivery'[1]
             IN  /\ pc' = "deliveries"
                 /\ DOMAIN player_points' \subseteq PlayerIds
                 /\ DOMAIN player_stats' \subseteq PlayerIds
                 /\ \A name \in {n \in RegisteredNames : ~Named(d, n)} :
                       /\ EntryOf(player_points', player_registry[name])
                            = EntryOf(player_points, player_registry[name])
                       /\ EntryOf(player_stats', player_registry[name])
                            = EntryOf(player_stats, player_registry[name])
                 /\ \A name \in {n \in RegisteredNames : Named(d, n)} :
                       /\ PointsIn(player_points', player_registry[name], "batting")
                            = PointsIn(player_points, player_registry[name], "batting")
                              + BattingShare(d, name)
                       /\ PointsIn(player_points', player_registry[name], "bowling")
                            = PointsIn(player_points, player_registry[name], "bowling")
                              + BowlingShare(d, name)
                       /\ PointsIn(player_points', player_registry[name], "fielding")
                            = PointsIn(player_points, player_registry[name], "fielding")
                              + FieldingShare(d, name)
                       /\ StatsOf(player_stats', player_registry[name])
                            = [StatsOf(player_stats, player_registry[name]) EXCEPT
                                 !.runs_scored = @ + (IF d.batter = name
                                                      THEN d.runs_batter ELSE 0),
                                 !.balls_faced = @ + (IF d.batter = name
                                                         /\ d.extras.kind # "wides"
                                                      THEN 1 ELSE 0),
                                 !.wickets = @ + Cardinality(Taken(d, name)),
                                 !.runs_conceded = @ + (IF d.bowler = name
                                                        THEN ConcededShare(d) ELSE 0),
                                 !.legal_balls_bowled =
                                     @ + (IF d.bowler = name
                                             /\ d.extras.kind \notin {"wides", "noballs"}
                                          THEN 1 ELSE 0),
                                 !.catches = @ + CatchesShare(d, name)]
        /\ (IsEndOverStep /\ over_len > 0 /\ delivery[1].bowler \notin RegisteredNames) =>
             /\ pc' = "overs"
             /\ player_points' = player_points
             /\ player_stats' = player_stats
      ]_vars

\* a finished match in which an unregistered batter scored off a registered bowler and a
\* registered fielder shared a run out with an unregistered one
C15_Witness ==
    /\ pc = "done"
    /\ n_deliveries = 2
    /\ "pC" \in DOMAIN final_scores
    /\ final_scores["pC"].total_points = 6
    /\ StatsOf(player_stats, "pB").runs_conceded = 4
    /\ StatsOf(player_stats, "pB").legal_balls_bowled = 2
    /\ StatsOf(player_stats, "pA").runs_scored = 0

(***************************************************************************)
(* Properties of the team selection: the order of the criteria             *)
(***************************************************************************)
\* C16: when the returned team attains the maximum total predicted_fp of the legal XIs,
\* it has the minimum total credits among the legal XIs attaining it, and the maximum
\* number of ARs among those that attain both.
C16_LexicographicTieBreak ==
    (pc = "selected" /\ LegalTeams(squad) # {}) =>
        LET legal == LegalTeams(squad)
            best_fp == {T \in legal : \A U \in legal : SumFp(squad, U) <= SumFp(squad, T)}
            cheapest == {T \in best_fp :
                            \A U \in best_fp : SumCredits(squad, T) <= SumCredits(squad, U)}
        IN  selected_ids \in best_fp =>
                /\ selected_ids \in cheapest
                /\ \A U \in cheapest :
                      CountRole(squad, U, "AR") <= CountRole(squad, selected_ids, "AR")

(***************************************************************************)
(* Properties of the credits: the first match of the record store          *)
(***************************************************************************)
\* C17: when no row of the store is dated strictly before the target date, the call
\* returns one entry for every squad player id, each of credit 6.0, whatever the role
\* tables hold and whatever rows are dated on or after the target date.
C17_EmptyHistoryDefault ==
    (pc \in {"credited", "recomputed"} /\ PriorRows = <<>>) =>
        /\ DOMAIN credits = SquadIds
        /\ \A player_id \in SquadIds :
              credits[player_id].num = DefaultCredit * credits[player_id].den

\* the second call has answered at the first date of a store that holds rows of the
\* target date and later, for players with roles of every kind
C17_Witness ==
    /\ pc = "recomputed"
    /\ PriorRows = <<>>
    /\ role_tables = SomeRoleTables
    /\ \E i \in 1..Len(historical_df) : historical_df[i].match_date = match_date
    /\ \E i \in 1..Len(historical_df) : historical_df[i].match_date > match_date
    /\ Len(historical_df) >= MinAppearances

(***************************************************************************)
(* Properties of the credits: the rows behind a composite score            *)
(***************************************************************************)
\* the rows of a player before the target date, oldest match first
ByDate(rows) == SortSeq(rows, LAMBDA a, b : a.match_date < b.match_date)

\* the (up to) ten rows of the latest match_date among a player's prior rows
MostRecentRows(player_id) == TailRows(ByDate(Group(PriorRows, player_id)), TailWindow)

\* C18: the composite score of every player of the pre-match history is the score of the
\* actual_fp of that player's (up to) ten prior rows of the latest match_date, whatever
\* the order of the rows in the store.
C18_CompositeOfMostRecent ==
    (pc \in {"credited", "recomputed"} /\ PriorRows # <<>>) =>
        LET stats == PriorStats
        IN  \A player_id \in DOMAIN stats :
                stats[player_id].composite_score
                    = CalculateCompositeScore(MostRecentRows(player_id))

(***************************************************************************)
(* Properties of the scoring engine: wicket milestones                     *)
(***************************************************************************)
\* C19: at the end of the match the bowling points of a player gain, besides the economy
\* adjustment, +6 for exactly 3 wickets, +10 for exactly 4, +16 for exactly 5, and
\* nothing for any other count; no bonus of a lower threshold is added on top.
C19_WicketMilestones ==
    [][ IsFinishStep =>
          \A pid \in PlayerIds :
             LET stats == StatsOf(player_stats, pid)
                 bonus == PointsIn(player_points', pid, "bowling")
                            - PointsIn(player_points, pid, "bowling")
                            - ClaimedEconomy(stats)
             IN  /\ stats.wickets = 3 => bonus = 6
                 /\ stats.wickets = 4 => bonus = 10
                 /\ stats.wickets = 5 => bonus = 16
                 /\ stats.wickets \notin {3, 4, 5} => bonus = 0
      ]_vars

\* a bowler of five wickets in fewer than 12 legal balls ends on the points of the
\* wickets and the one bonus of 16
C19_Witness ==
    /\ pc = "done"
    /\ "pB" \in DOMAIN player_stats
    /\ player_stats["pB"].wickets = 5
    /\ player_stats["pB"].legal_balls_bowled < MinLegalBalls
    /\ "pB" \in DOMAIN final_scores
    /\ final_scores["pB"].total_points = 5 * WicketPoints + 16

(***************************************************************************)
(* Properties of the scoring engine: invocations                           *)
(***************************************************************************)
\* C20: a second call of calculate_points on the same engine and the same match returns
\* the totals and breakdowns the first call returned.
C20_StatelessAcrossInvocations ==
    [][ (pc = "returned" /\ pc' = "returned again") => final_scores' = final_scores ]_vars

(***************************************************************************)
(* Properties of the scoring engine: the bowler's share of a dismissal     *)
(***************************************************************************)
\* C21: on a delivery of a registered bowler, every wicket record whose kind is not
\* "run out" gives the bowler +25 bowling points and one more wicket, and +8 more when
\* the kind is bowled or lbw; a "run out" record gives the bowler no bowling points and
\* leaves the bowler's wickets as they were.
C21_BowlerWicketPoints ==
    [][ (IsDeliveryStep /\ delivery'[1].wickets # <<>>
           /\ delivery'[1].bowler \in RegisteredNames) =>
          /\ PointsIn(player_points', player_registry[delivery'[1].bowler], "bowling")
               = PointsIn(player_points, player_registry[delivery'[1].bowler], "bowling")
                 + 25 * Cardinality({i \in 1..Len(delivery'[1].wickets) :
                                        delivery'[1].wickets[i].kind # "run out"})
                 + 8 * Cardinality({i \in 1..Len(delivery'[1].wickets) :
                                       delivery'[1].wickets[i].kind \in {"bowled", "lbw"}})
          /\ StatsOf(player_stats', player_registry[delivery'[1].bowler]).wickets
               = StatsOf(player_stats, player_registry[delivery'[1].bowler]).wickets
                 + Cardinality({i \in 1..Len(delivery'[1].wickets) :
                                   delivery'[1].wickets[i].kind # "run out"})
      ]_vars

\* two deliveries into the first over of a registered bowler: one batter bowled or lbw,
\* one run out by a direct hit of a registered fielder
C21_Witness ==
    /\ pc = "deliveries"
    /\ n_overs = 1
    /\ over_len = 2
    /\ delivery # <<>>
    /\ delivery[1].bowler = "B"
    /\ StatsOf(player_stats, "pB").wickets = 1
    /\ PointsIn(player_points, "pB", "bowling") = 33
    /\ PointsIn(player_points, "pC", "fielding") = 12

(***************************************************************************)
(* Properties of the scoring engine: the players of the result             *)
(***************************************************************************)
\* the names the deliveries of a match give their batters, bowlers and fielders
NamesOfMatch(overs) ==
    UNION {UNION {{overs[i][j].batter, overs[i][j].bowler} \cup FielderNames(overs[i][j]) :
                     j \in 1..Len(overs[i])} :
             i \in 1..Len(overs)}

\* C22: the players of the result of calculate_points are exactly the registered players
\* named by at least one delivery of the match as batter, bowler or fielder (a bowler
\* without a point included, a player no delivery names excluded).
C22_EmittedAreParticipants ==
    pc = "returned" =>
        DOMAIN final_scores
            = {player_registry[name] : name \in NamesOfMatch(match_data) \cap RegisteredNames}

(***************************************************************************)
(* Properties of the scoring engine: an over without deliveries            *)
(***************************************************************************)
\* C23: the end of an over that held no delivery changes no player's points or counters
\* (no maiden bonus, for any bowler) and the pass goes on to the next over.
C23_EmptyOverIsInert ==
    [][ (IsEndOverStep /\ over_len = 0) =>
          /\ pc' = "overs"
          /\ player_points' = player_points
          /\ player_stats' = player_stats
      ]_vars

(***************************************************************************)
(* Properties of the team selection: a squad of one team                   *)
(***************************************************************************)
\* C24: for a squad whose players all belong to one team, no assignment satisfies the
\* hard constraints, and select_team never ends in an 11-player selection that is
\* answered as a success.
C24_SingleTeamSquadFails ==
    Cardinality(TeamsOf(squad)) = 1 =>
        /\ FeasibleTeams(squad) = {}
        /\ pc = "responded" => ~(response = "200" /\ Cardinality(selected_ids) = TeamSize)

====
